---- MODULE Spec2Model ----
(***************************************************************************)
(* A model of the regression semi-supervised GAN code:                     *)
(*   src/srgan.py        run_srgan: the training run                       *)
(*   src/crowd/srgan.py  CrowdExperiment: dataset_setup, evaluate,         *)
(*                       batches_of_patches_with_position, evaluation_epoch*)
(*                                                                         *)
(* Numbers that are floats in the program are integers here; a quotient is *)
(* kept exact as a pair <<numerator, denominator>>.                        *)
(***************************************************************************)
EXTENDS Integers, Sequences, FiniteSets, TLC

(* ------------------------------ bounds --------------------------------- *)
\* settings.steps_to_run ranges over 0..MaxSteps
MaxSteps == 3
\* settings.summary_step_period and presentation_step_period range over 1..MaxPeriod
MaxPeriod == 2
\* at most MaxLines lines are typed on stdin during a run
MaxLines == 2
\* a full scene is 1..MaxDim pixels high and wide
MaxDim == 3
\* crowd.data.patch_size ranges over 1..MaxPatchSize
MaxPatchSize == 4
\* settings.batch_size ranges over 1..MaxBatch
MaxBatch == 2
\* sliding_window_step ranges over 1..MaxStride
MaxStride == 3
\* evaluate accumulates at most MaxPatches patches of a scene
MaxPatches == 3
\* the network's density output is offset by 0..MaxDensity, its count is 0..MaxCount
MaxDensity == 1
MaxCount == 1
\* the buffers handed to the normalization alone: 1 x (1..NormWidth) pixels,
\* hit counts 0..MaxHits, accumulated sums 0..MaxSum
NormWidth == 2
MaxHits == 2
MaxSum == 2
\* evaluation_epoch runs over a dataset of 1..MaxItems items
MaxItems == 2
\* labeled_loss_function is given a batch of 1..MaxLossBatch items
MaxLossBatch == 2

(* ------------------------------ state ---------------------------------- *)
VARIABLES
    \* run_srgan
    pc,                 \* position in run_srgan
    settings,           \* the Settings object of the run
    step,               \* the loop variable `step` (-1 before the loop)
    writer_step,        \* dnn_summary_writer.step
    dnn_updates,        \* completed dnn_training_step calls (DNN parameter version)
    gan_updates,        \* completed gan_training_step calls (D and G parameter version)
    setup_done,         \* dataset_setup(settings) and model_setup() have returned
    optimizers_built,   \* the three Adam optimizers exist
    loaded,             \* the networks whose state was loaded from load_model_path
    stdin,              \* lines typed and not yet read
    typed,              \* number of lines typed so far
    files,              \* model files written under trial_directory
    raised,             \* the value named by the ValueError raised, or "none"
    train_drawn,        \* next(train_dataset_generator) calls so far
    unlabeled_drawn,    \* next(unlabeled_dataset_generator) calls so far
    labeled_examples,   \* the labeled batch held by the loop body (0: none)
    unlabeled_examples, \* the unlabeled batch held by the loop body (0: none)
    dnn_input,          \* <<step, labeled batch>> last passed to dnn_training_step
    gan_input,          \* <<step, labeled batch, unlabeled batch>> last passed to gan_training_step
    \* CrowdExperiment
    crowd_pc,           \* position in the CrowdExperiment method being run
    crowd_settings,     \* self.settings: crowd_dataset, batch_size
    sliding_window_step,\* the argument of evaluate
    patch_size,         \* crowd.data.patch_size
    scene,              \* full_example.label.shape: height, width
    network,            \* self.DNN: what it predicts for a patch
    train_dataset,      \* self.train_dataset ("none": not set)
    test_dataset,       \* evaluate's test_dataset ("none": not set)
    crowd_raised,       \* the value named by the ValueError raised, or "none"
    x, y,               \* the generator's window centre
    half_patch_size,    \* the generator's local half_patch_size (its stride)
    batch,              \* the generator's batch: the <<x, y>> of its patches
    gen_state,          \* "none", "running", "yielded", "yielded_final", "returned"
    first_patch_done,   \* some patch has been produced by the generator
    example_index,      \* evaluate's position in the batch
    accumulated,        \* patches evaluate has accumulated
    sum_density_label,  \* accumulated density, per pixel
    sum_count_label,    \* accumulated count contribution, per pixel, in 1/patch_size^2
    hit_predicted_label,\* hit count, per pixel
    full_predicted_label, \* density / hit count, per pixel, as <<numerator, denominator>>
    full_predicted_count, \* sum of count contribution / hit count, in 1/patch_size^2
    clamped_pixels,     \* the pixels whose zero hit count line 262 set to 1
    \* evaluation_epoch
    epoch_pc,           \* position in evaluation_epoch
    epoch_dataset,      \* the dataset: per item its label and what the network predicts
    epoch_batch_size,   \* settings.batch_size
    comparison_value,   \* the argument comparison_value ("None" or a fraction)
    cursor,             \* items the data loader has delivered
    predicted_counts,   \* the accumulated predicted counts
    densities,          \* the accumulated labels
    predicted_densities,\* the accumulated predicted densities
    scalars,            \* the scalars given to summary_writer.add_scalar, by name
    epoch_result,       \* the value returned ("none" before the return)
    \* labeled_loss_function
    loss_pc,            \* position in labeled_loss_function
    loss_batch,         \* per item: predicted density, predicted count, density label
    density_loss,       \* the local density_loss, a fraction
    count_loss,         \* the local count_loss, a fraction
    loss_result         \* the value returned ("none" before the return)

trainVars == <<pc, settings, step, writer_step, dnn_updates, gan_updates, setup_done,
               optimizers_built, loaded, stdin, typed, files, raised, train_drawn,
               unlabeled_drawn, labeled_examples, unlabeled_examples, dnn_input, gan_input>>

genVars == <<x, y, half_patch_size, batch, gen_state, first_patch_done>>

bufferVars == <<sum_density_label, sum_count_label, hit_predicted_label>>

resultVars == <<full_predicted_label, full_predicted_count, clamped_pixels>>

crowdConfig == <<crowd_settings, sliding_window_step, patch_size, scene, network>>

crowdVars == <<crowd_pc, crowdConfig, train_dataset, test_dataset, crowd_raised, genVars,
               example_index, accumulated, bufferVars, resultVars>>

epochVars == <<epoch_pc, epoch_dataset, epoch_batch_size, comparison_value, cursor,
               predicted_counts, densities, predicted_densities, scalars, epoch_result>>

lossVars == <<loss_pc, loss_batch, density_loss, count_loss, loss_result>>

vars == <<trainVars, crowdVars, epochVars, lossVars>>

(* ------------------------------ run_srgan ------------------------------ *)
\* The applications run_srgan knows (lines 38, 42) and one it does not.
KnownApplications == {"coefficient", "age"}
Applications == KnownApplications \cup {"crowd"}

\* Lines a user may type; 'save' in line (line 96) is a substring test.
Lines == {"save\n", "autosave off\n", "stop\n"}
ContainsSave(line) == line \in {"save\n", "autosave off\n"}

Networks == {"DNN", "D", "G"}

\* The parameter version a network's state_dict() holds.
StateDict(net) == IF net = "DNN" THEN dnn_updates ELSE gan_updates

\* The step the summary writer is keyed by after dnn_training_step(.., step).
SummaryWriterStep(s) == s

SettingsSpace ==
    [application : Applications,
     steps_to_run : 0..MaxSteps,
     load_model_path : BOOLEAN,
     should_save_models : BOOLEAN,
     summary_step_period : 1..MaxPeriod,
     presentation_step_period : 1..MaxPeriod]

TrainInit ==
    /\ pc = "start"
    /\ settings \in SettingsSpace
    /\ step = -1
    /\ writer_step = 0
    /\ dnn_updates = 0
    /\ gan_updates = 0
    /\ setup_done = FALSE
    /\ optimizers_built = FALSE
    /\ loaded = {}
    /\ stdin = <<>>
    /\ typed = 0
    /\ files = {}
    /\ raised = "none"
    /\ train_drawn = 0
    /\ unlabeled_drawn = 0
    /\ labeled_examples = 0
    /\ unlabeled_examples = 0
    /\ dnn_input = <<>>
    /\ gan_input = <<>>

\* A choice of application with no else branch: nothing is raised.
SelectApplicationNoRaise ==
    /\ pc = "start"
    /\ pc' = "setup"
    /\ UNCHANGED <<settings, step, writer_step, dnn_updates, gan_updates, setup_done,
                   optimizers_built, loaded, stdin, typed, files, raised, train_drawn,
                   unlabeled_drawn, labeled_examples, unlabeled_examples, dnn_input,
                   gan_input>>
    /\ UNCHANGED <<crowdVars, epochVars, lossVars>>

\* lines 38-47: choose the application's functions or raise ValueError.
SelectApplication ==
    /\ pc = "start"
    /\ IF settings.application \in KnownApplications
       THEN pc' = "setup" /\ UNCHANGED raised
       ELSE pc' = "error" /\ raised' = settings.application
    /\ UNCHANGED <<settings, step, writer_step, dnn_updates, gan_updates, setup_done,
                   optimizers_built, loaded, stdin, typed, files, train_drawn,
                   unlabeled_drawn, labeled_examples, unlabeled_examples, dnn_input,
                   gan_input>>
    /\ UNCHANGED <<crowdVars, epochVars, lossVars>>

\* lines 49-51: dataset_setup(settings) and model_setup().
Setup ==
    /\ pc = "setup"
    /\ setup_done' = TRUE
    /\ pc' = "load"
    /\ UNCHANGED <<settings, step, writer_step, dnn_updates, gan_updates,
                   optimizers_built, loaded, stdin, typed, files, raised, train_drawn,
                   unlabeled_drawn, labeled_examples, unlabeled_examples, dnn_input,
                   gan_input>>
    /\ UNCHANGED <<crowdVars, epochVars, lossVars>>

\* A load that ignores settings.load_model_path.
LoadModelsAlways ==
    /\ pc = "load"
    /\ loaded' = Networks
    /\ pc' = "optimizers"
    /\ UNCHANGED <<settings, step, writer_step, dnn_updates, gan_updates, setup_done,
                   optimizers_built, stdin, typed, files, raised, train_drawn,
                   unlabeled_drawn, labeled_examples, unlabeled_examples, dnn_input,
                   gan_input>>
    /\ UNCHANGED <<crowdVars, epochVars, lossVars>>

\* lines 53-60: the optional warm start.
LoadModels ==
    /\ pc = "load"
    /\ loaded' = IF settings.load_model_path THEN Networks ELSE loaded
    /\ pc' = "optimizers"
    /\ UNCHANGED <<settings, step, writer_step, dnn_updates, gan_updates, setup_done,
                   optimizers_built, stdin, typed, files, raised, train_drawn,
                   unlabeled_drawn, labeled_examples, unlabeled_examples, dnn_input,
                   gan_input>>
    /\ UNCHANGED <<crowdVars, epochVars, lossVars>>

\* lines 61-76: move to the device, build the optimizers and the infinite iterators.
BuildOptimizers ==
    /\ pc = "optimizers"
    /\ optimizers_built' = TRUE
    /\ pc' = "loop"
    /\ UNCHANGED <<settings, step, writer_step, dnn_updates, gan_updates, setup_done,
                   loaded, stdin, typed, files, raised, train_drawn, unlabeled_drawn,
                   labeled_examples, unlabeled_examples, dnn_input, gan_input>>
    /\ UNCHANGED <<crowdVars, epochVars, lossVars>>

\* line 78: for step in range(settings.steps_to_run).
LoopHead ==
    /\ pc = "loop"
    /\ IF step + 1 < settings.steps_to_run
       THEN step' = step + 1 /\ pc' = "dnn"
       ELSE step' = step /\ pc' = "completed"
    /\ UNCHANGED <<settings, writer_step, dnn_updates, gan_updates, setup_done,
                   optimizers_built, loaded, stdin, typed, files, raised, train_drawn,
                   unlabeled_drawn, labeled_examples, unlabeled_examples, dnn_input,
                   gan_input>>
    /\ UNCHANGED <<crowdVars, epochVars, lossVars>>

\* A supervised step after which the loop goes on to the next step without the GAN step.
DnnTrainingStepThenContinue ==
    /\ pc = "dnn"
    /\ train_drawn' = train_drawn + 1
    /\ labeled_examples' = train_drawn + 1
    /\ dnn_input' = <<step, train_drawn + 1>>
    /\ dnn_updates' = dnn_updates + 1
    /\ writer_step' = SummaryWriterStep(step)
    /\ pc' = "loop"
    /\ UNCHANGED <<settings, step, gan_updates, setup_done, optimizers_built, loaded,
                   stdin, typed, files, raised, unlabeled_drawn, unlabeled_examples,
                   gan_input>>
    /\ UNCHANGED <<crowdVars, epochVars, lossVars>>

\* lines 83-84: draw the labeled batch and run the supervised step.
DnnTrainingStep ==
    /\ pc = "dnn"
    /\ train_drawn' = train_drawn + 1
    /\ labeled_examples' = train_drawn + 1
    /\ dnn_input' = <<step, train_drawn + 1>>
    /\ dnn_updates' = dnn_updates + 1
    /\ writer_step' = SummaryWriterStep(step)
    /\ pc' = "gan"
    /\ UNCHANGED <<settings, step, gan_updates, setup_done, optimizers_built, loaded,
                   stdin, typed, files, raised, unlabeled_drawn, unlabeled_examples,
                   gan_input>>
    /\ UNCHANGED <<crowdVars, epochVars, lossVars>>

\* A GAN step that draws a labeled batch of its own from the labeled stream.
GanTrainingStepFreshBatch ==
    /\ pc = "gan"
    /\ train_drawn' = train_drawn + 1
    /\ labeled_examples' = train_drawn + 1
    /\ unlabeled_drawn' = unlabeled_drawn + 1
    /\ unlabeled_examples' = unlabeled_drawn + 1
    /\ gan_input' = <<step, train_drawn + 1, unlabeled_drawn + 1>>
    /\ gan_updates' = gan_updates + 1
    /\ pc' = "summary"
    /\ UNCHANGED <<settings, step, writer_step, dnn_updates, setup_done,
                   optimizers_built, loaded, stdin, typed, files, raised, dnn_input>>
    /\ UNCHANGED <<crowdVars, epochVars, lossVars>>

\* lines 86-88: draw the unlabeled batch and run the GAN step.
GanTrainingStep ==
    /\ pc = "gan"
    /\ unlabeled_drawn' = unlabeled_drawn + 1
    /\ unlabeled_examples' = unlabeled_drawn + 1
    /\ gan_input' = <<step, labeled_examples, unlabeled_drawn + 1>>
    /\ gan_updates' = gan_updates + 1
    /\ pc' = "summary"
    /\ UNCHANGED <<settings, step, writer_step, dnn_updates, setup_done,
                   optimizers_built, loaded, stdin, typed, files, raised, train_drawn,
                   labeled_examples, dnn_input>>
    /\ UNCHANGED <<crowdVars, epochVars, lossVars>>

\* lines 90-93: on a summary or presentation step run validation_summaries.
ValidationSummaries ==
    /\ pc = "summary"
    /\ IF \/ writer_step % settings.summary_step_period = 0
          \/ writer_step % settings.presentation_step_period = 0
       THEN pc' = "poll"
       ELSE pc' = "loop"
    /\ UNCHANGED <<settings, step, writer_step, dnn_updates, gan_updates, setup_done,
                   optimizers_built, loaded, stdin, typed, files, raised, train_drawn,
                   unlabeled_drawn, labeled_examples, unlabeled_examples, dnn_input,
                   gan_input>>
    /\ UNCHANGED <<crowdVars, epochVars, lossVars>>

\* The files torch.save writes at lines 97-99, named by the step.
StepFiles == {[net |-> n, tag |-> step, state |-> StateDict(n)] : n \in Networks}

\* A poll of stdin that is also made between the supervised and the GAN step.
ReadLineMidStep ==
    /\ pc \in {"poll", "gan"}
    /\ stdin # <<>>
    /\ stdin' = Tail(stdin)
    /\ files' = IF ContainsSave(Head(stdin)) THEN files \cup StepFiles ELSE files
    /\ UNCHANGED <<pc, settings, step, writer_step, dnn_updates, gan_updates, setup_done,
                   optimizers_built, loaded, typed, raised, train_drawn,
                   unlabeled_drawn, labeled_examples, unlabeled_examples, dnn_input,
                   gan_input>>
    /\ UNCHANGED <<crowdVars, epochVars, lossVars>>

\* lines 94-100, one turn of the while loop with a line waiting.
ReadLine ==
    /\ pc = "poll"
    /\ stdin # <<>>
    /\ stdin' = Tail(stdin)
    /\ files' = IF ContainsSave(Head(stdin)) THEN files \cup StepFiles ELSE files
    /\ UNCHANGED <<pc, settings, step, writer_step, dnn_updates, gan_updates, setup_done,
                   optimizers_built, loaded, typed, raised, train_drawn,
                   unlabeled_drawn, labeled_examples, unlabeled_examples, dnn_input,
                   gan_input>>
    /\ UNCHANGED <<crowdVars, epochVars, lossVars>>

\* line 94: select reports nothing to read; the while loop ends.
PollEmpty ==
    /\ pc = "poll"
    /\ stdin = <<>>
    /\ pc' = "loop"
    /\ UNCHANGED <<settings, step, writer_step, dnn_updates, gan_updates, setup_done,
                   optimizers_built, loaded, stdin, typed, files, raised, train_drawn,
                   unlabeled_drawn, labeled_examples, unlabeled_examples, dnn_input,
                   gan_input>>
    /\ UNCHANGED <<crowdVars, epochVars, lossVars>>

\* The files torch.save writes at lines 104-106 (no step in the name: tag -1).
FinalFiles == {[net |-> n, tag |-> -1, state |-> StateDict(n)] : n \in Networks}

\* lines 102-106: the run is complete; save when should_save_models.
FinalSave ==
    /\ pc = "completed"
    /\ files' = IF settings.should_save_models THEN files \cup FinalFiles ELSE files
    /\ pc' = "done"
    /\ UNCHANGED <<settings, step, writer_step, dnn_updates, gan_updates, setup_done,
                   optimizers_built, loaded, stdin, typed, raised, train_drawn,
                   unlabeled_drawn, labeled_examples, unlabeled_examples, dnn_input,
                   gan_input>>
    /\ UNCHANGED <<crowdVars, epochVars, lossVars>>

\* The user types a line while the run is in progress (sys.stdin, lines 94-95).
TypeLine ==
    /\ pc \notin {"none", "done", "error"}
    /\ typed < MaxLines
    /\ \E line \in Lines : stdin' = Append(stdin, line)
    /\ typed' = typed + 1
    /\ UNCHANGED <<pc, settings, step, writer_step, dnn_updates, gan_updates, setup_done,
                   optimizers_built, loaded, files, raised, train_drawn,
                   unlabeled_drawn, labeled_examples, unlabeled_examples, dnn_input,
                   gan_input>>
    /\ UNCHANGED <<crowdVars, epochVars, lossVars>>

\* run_srgan is not the program being run.
TrainIdle ==
    /\ pc = "none"
    /\ settings = [application |-> "none"]
    /\ step = -1
    /\ writer_step = 0
    /\ dnn_updates = 0
    /\ gan_updates = 0
    /\ setup_done = FALSE
    /\ optimizers_built = FALSE
    /\ loaded = {}
    /\ stdin = <<>>
    /\ typed = 0
    /\ files = {}
    /\ raised = "none"
    /\ train_drawn = 0
    /\ unlabeled_drawn = 0
    /\ labeled_examples = 0
    /\ unlabeled_examples = 0
    /\ dnn_input = <<>>
    /\ gan_input = <<>>

TrainNext ==
    \/ SelectApplication
    \/ Setup
    \/ LoadModels
    \/ BuildOptimizers
    \/ LoopHead
    \/ DnnTrainingStep
    \/ GanTrainingStep
    \/ ValidationSummaries
    \/ ReadLine
    \/ PollEmpty
    \/ FinalSave
    \/ TypeLine

(* --------------------------- CrowdExperiment --------------------------- *)
\* The datasets dataset_setup knows (lines 35, 56), the one evaluate knows
\* (line 217), and one neither knows.
SetupDatasets == {"World Expo", "ShanghaiTech"}
EvaluateDatasets == {"ShanghaiTech"}
CrowdDatasets == SetupDatasets \cup {"UCF QNRF"}

CrowdSettingsSpace == [crowd_dataset : CrowdDatasets, batch_size : 1..MaxBatch]

Scenes == [height : 1..MaxDim, width : 1..MaxDim]

\* What the network predicts for every patch: a density map
\* density + row * patch_size + column, and a count.
NetworkSpace == [density : 0..MaxDensity, count : 0..MaxCount]

Pixels(shape) == (0..(shape.height - 1)) \X (0..(shape.width - 1))

\* np.zeros_like(full_example.label), lines 225-227
ZerosLike(shape) == [p \in Pixels(shape) |-> 0]

\* Values shared by every start of a CrowdExperiment.
CrowdConfigInit ==
    /\ crowd_settings \in CrowdSettingsSpace
    /\ sliding_window_step \in 1..MaxStride
    /\ patch_size \in 1..MaxPatchSize
    /\ scene \in Scenes
    /\ network \in NetworkSpace

NoGenerator ==
    /\ x = 0
    /\ y = 0
    /\ half_patch_size = 0
    /\ batch = <<>>
    /\ gen_state = "none"
    /\ first_patch_done = FALSE

NoBuffers ==
    /\ example_index = 0
    /\ accumulated = 0
    /\ sum_density_label = <<>>
    /\ sum_count_label = <<>>
    /\ hit_predicted_label = <<>>
    /\ full_predicted_label = <<>>
    /\ full_predicted_count = <<0, 1>>
    /\ clamped_pixels = {}

\* A CrowdExperiment has been constructed; no method has run.
CrowdInit ==
    /\ crowd_pc = "idle"
    /\ CrowdConfigInit
    /\ train_dataset = "none"
    /\ test_dataset = "none"
    /\ crowd_raised = "none"
    /\ NoGenerator
    /\ NoBuffers

\* No CrowdExperiment is the program being run.
CrowdIdle ==
    /\ crowd_pc = "none"
    /\ crowd_settings = [crowd_dataset |-> "none", batch_size |-> 1]
    /\ sliding_window_step = 1
    /\ patch_size = 1
    /\ scene = [height |-> 1, width |-> 1]
    /\ network = [density |-> 0, count |-> 0]
    /\ train_dataset = "none"
    /\ test_dataset = "none"
    /\ crowd_raised = "none"
    /\ NoGenerator
    /\ NoBuffers

\* dataset_setup, lines 34-66.
DatasetSetup ==
    /\ crowd_pc = "idle"
    /\ IF crowd_settings.crowd_dataset \in SetupDatasets
       THEN /\ train_dataset' = crowd_settings.crowd_dataset
            /\ crowd_pc' = "datasets_ready"
            /\ UNCHANGED crowd_raised
       ELSE /\ crowd_raised' = crowd_settings.crowd_dataset
            /\ crowd_pc' = "error"
            /\ UNCHANGED train_dataset
    /\ UNCHANGED <<crowdConfig, test_dataset, genVars, example_index, accumulated,
                   bufferVars, resultVars>>
    /\ UNCHANGED <<trainVars, epochVars, lossVars>>

\* evaluate, lines 215-228: choose the test dataset or raise ValueError; for the
\* full example zero the three buffers and start the generator (lines 281-283).
EvaluateBegin ==
    /\ crowd_pc = "idle"
    /\ IF crowd_settings.crowd_dataset \in EvaluateDatasets
       THEN /\ test_dataset' = crowd_settings.crowd_dataset
            /\ crowd_pc' = "for_batch"
            /\ sum_density_label' = ZerosLike(scene)
            /\ sum_count_label' = ZerosLike(scene)
            /\ hit_predicted_label' = ZerosLike(scene)
            /\ x' = 0
            /\ y' = 0
            /\ half_patch_size' = 0
            /\ batch' = <<>>
            /\ gen_state' = "running"
            /\ UNCHANGED <<crowd_raised, first_patch_done>>
       ELSE /\ crowd_raised' = crowd_settings.crowd_dataset
            /\ crowd_pc' = "error"
            /\ UNCHANGED <<test_dataset, genVars, bufferVars>>
    /\ UNCHANGED <<crowdConfig, train_dataset, example_index, accumulated, resultVars>>
    /\ UNCHANGED <<trainVars, epochVars, lossVars>>

(* ------------------ batches_of_patches_with_position ------------------- *)
\* The generator has been called on a scene by a caller that only iterates it.
ScanInit ==
    /\ crowd_pc = "scan_only"
    /\ CrowdConfigInit
    /\ train_dataset = "none"
    /\ test_dataset = "none"
    /\ crowd_raised = "none"
    /\ x = 0
    /\ y = 0
    /\ half_patch_size = 0
    /\ batch = <<>>
    /\ gen_state = "running"
    /\ first_patch_done = FALSE
    /\ NoBuffers

\* One turn of `for _ in range(self.settings.batch_size)`, lines 286-299: move,
\* wrap, then either end the scan (yielding a partial batch first) or append the
\* patch at (x, y); the turn that fills the batch yields it (line 299). When the
\* generator returns with nothing to yield, evaluate's loop over it ends.
GeneratorStep ==
    /\ gen_state = "running"
    /\ LET moved == x + half_patch_size
           wrap == moved >= scene.width
           nx == IF wrap THEN 0 ELSE moved
           ny == IF wrap THEN y + half_patch_size ELSE y
       IN  /\ x' = nx
           /\ y' = ny
           /\ IF ny >= scene.height
              THEN /\ gen_state' = IF batch # <<>> THEN "yielded_final" ELSE "returned"
                   /\ crowd_pc' = IF batch = <<>> /\ crowd_pc = "for_batch"
                                  THEN "normalize" ELSE crowd_pc
                   /\ UNCHANGED <<batch, first_patch_done>>
              ELSE /\ batch' = Append(batch, <<nx, ny>>)
                   /\ gen_state' = IF Len(batch) + 1 = crowd_settings.batch_size
                                   THEN "yielded" ELSE "running"
                   /\ first_patch_done' = TRUE
                   /\ UNCHANGED crowd_pc
    /\ UNCHANGED <<half_patch_size, crowdConfig, train_dataset, test_dataset, crowd_raised,
                   example_index, accumulated, bufferVars, resultVars>>
    /\ UNCHANGED <<trainVars, epochVars, lossVars>>

\* A caller that only iterates the generator takes the yielded batch.
TakeBatch ==
    /\ crowd_pc = "scan_only"
    /\ gen_state \in {"yielded", "yielded_final"}
    /\ batch' = <<>>
    /\ gen_state' = IF gen_state = "yielded_final" THEN "returned" ELSE "running"
    /\ UNCHANGED <<x, y, half_patch_size, first_patch_done, crowd_pc, crowdConfig,
                   train_dataset, test_dataset, crowd_raised, example_index, accumulated,
                   bufferVars, resultVars>>
    /\ UNCHANGED <<trainVars, epochVars, lossVars>>

(* ------------------------------ evaluate ------------------------------- *)
\* evaluate's half_patch_size, line 239
HalfPatchSize == patch_size \div 2

\* lines 238-250: the start and end offsets of the window centred at c on an axis
\* of the scene that is `size` long
StartOffset(c) == IF c - HalfPatchSize < 0 THEN HalfPatchSize - c ELSE 0
EndOffset(c, size) ==
    IF c + HalfPatchSize >= size THEN c + HalfPatchSize + 1 - size ELSE 0

\* The length of the slice lo:hi.
SliceLen(lo, hi) == IF hi > lo THEN hi - lo ELSE 0

\* lines 251-252: the slice of a buffer axis written for the window centred at c
DestLo(c) == c - HalfPatchSize + StartOffset(c)
DestHi(c, size) == c + HalfPatchSize + 1 - EndOffset(c, size)
DestLen(c, size) == SliceLen(DestLo(c), DestHi(c, size))

\* lines 253-254: the slice of a prediction axis read; the prediction is
\* patch_size x patch_size
SrcLo(c) == StartOffset(c)
SrcHi(c, size) == patch_size - EndOffset(c, size)
SrcLen(c, size) == SliceLen(SrcLo(c), SrcHi(c, size))

\* numpy's in-place add: the source axis has the length of the destination axis
\* or length 1 (it is then broadcast); anything else raises ValueError.
AxisFits(c, size) == SrcLen(c, size) = DestLen(c, size) \/ SrcLen(c, size) = 1

\* The prediction index added at offset i of the destination slice.
SrcIndex(i, c, size) == IF SrcLen(c, size) = 1 THEN SrcLo(c) ELSE SrcLo(c) + i

\* The pixels of the scene the window centred at (cx, cy) writes.
InRegion(p, cx, cy) ==
    /\ DestLo(cy) <= p[1] /\ p[1] < DestHi(cy, scene.height)
    /\ DestLo(cx) <= p[2] /\ p[2] < DestHi(cx, scene.width)

\* network(images), line 231: the density predicted at (row, column) of a patch,
\* and the count, spread over the patch (line 235) in units of 1/patch_size^2.
PredictedLabel(row, column) == network.density + row * patch_size + column
PredictedCountArray(row, column) == network.count

\* lines 251-261: the three buffers after the window centred at (cx, cy) is added
AddDensity(cx, cy) ==
    [p \in Pixels(scene) |->
        IF InRegion(p, cx, cy)
        THEN sum_density_label[p]
             + PredictedLabel(SrcIndex(p[1] - DestLo(cy), cy, scene.height),
                              SrcIndex(p[2] - DestLo(cx), cx, scene.width))
        ELSE sum_density_label[p]]

AddCount(cx, cy) ==
    [p \in Pixels(scene) |->
        IF InRegion(p, cx, cy)
        THEN sum_count_label[p]
             + PredictedCountArray(SrcIndex(p[1] - DestLo(cy), cy, scene.height),
                                   SrcIndex(p[2] - DestLo(cx), cx, scene.width))
        ELSE sum_count_label[p]]

AddHit(cx, cy) ==
    [p \in Pixels(scene) |->
        IF InRegion(p, cx, cy) THEN hit_predicted_label[p] + 1
        ELSE hit_predicted_label[p]]

\* lines 232-261 for one example of the batch; after the last one the loop over
\* the generator goes on: the generator resumes, or has returned (line 294) and
\* evaluate goes on to line 262.
AccumulatePatch ==
    /\ crowd_pc = "for_batch"
    /\ gen_state \in {"yielded", "yielded_final"}
    /\ accumulated < MaxPatches
    /\ LET cx == batch[example_index + 1][1]
           cy == batch[example_index + 1][2]
           last == example_index + 1 = Len(batch)
       IN  IF AxisFits(cy, scene.height) /\ AxisFits(cx, scene.width)
           THEN /\ sum_density_label' = AddDensity(cx, cy)
                /\ sum_count_label' = AddCount(cx, cy)
                /\ hit_predicted_label' = AddHit(cx, cy)
                /\ accumulated' = accumulated + 1
                /\ example_index' = IF last THEN 0 ELSE example_index + 1
                /\ batch' = IF last THEN <<>> ELSE batch
                /\ gen_state' = IF ~last THEN gen_state
                                ELSE IF gen_state = "yielded_final" THEN "returned"
                                ELSE "running"
                /\ crowd_pc' = IF last /\ gen_state = "yielded_final"
                               THEN "normalize" ELSE crowd_pc
                /\ UNCHANGED crowd_raised
           ELSE /\ crowd_raised' = "operands could not be broadcast together"
                /\ crowd_pc' = "error"
                /\ UNCHANGED <<bufferVars, accumulated, example_index, batch, gen_state>>
    /\ UNCHANGED <<x, y, half_patch_size, first_patch_done, crowdConfig, train_dataset,
                   test_dataset, resultVars>>
    /\ UNCHANGED <<trainVars, epochVars, lossVars>>

\* evaluate is at line 232 with a batch of one patch whose window centre is
\* anywhere in the scene; the buffers are still zero (lines 225-227).
PatchInit ==
    /\ crowd_pc = "for_batch"
    /\ CrowdConfigInit
    /\ crowd_settings.crowd_dataset \in EvaluateDatasets
    /\ crowd_settings.batch_size = 1
    /\ train_dataset = "none"
    /\ test_dataset = crowd_settings.crowd_dataset
    /\ crowd_raised = "none"
    /\ x \in 0..(scene.width - 1)
    /\ y \in 0..(scene.height - 1)
    /\ half_patch_size = 0
    /\ batch = <<<<x, y>>>>
    /\ gen_state = "yielded"
    /\ first_patch_done = TRUE
    /\ example_index = 0
    /\ accumulated = 0
    /\ sum_density_label = ZerosLike(scene)
    /\ sum_count_label = ZerosLike(scene)
    /\ hit_predicted_label = ZerosLike(scene)
    /\ full_predicted_label = <<>>
    /\ full_predicted_count = <<0, 1>>
    /\ clamped_pixels = {}

\* Exact fractions <<numerator, denominator>>; a zero denominator is kept as it is.
RECURSIVE Gcd(_, _)
Gcd(a, b) == IF b = 0 THEN a ELSE Gcd(b, a % b)

Abs(a) == IF a < 0 THEN -a ELSE a

Reduce(f) ==
    IF f[2] = 0 THEN f
    ELSE LET g == Gcd(Abs(f[1]), Abs(f[2]))
         IN  IF g = 0 THEN f ELSE <<f[1] \div g, f[2] \div g>>

FracAdd(f, g) == Reduce(<<f[1] * g[2] + g[1] * f[2], f[2] * g[2]>>)

RECURSIVE SumFractions(_, _)
SumFractions(f, S) ==
    IF S = {} THEN <<0, 1>>
    ELSE LET p == CHOOSE q \in S : TRUE
         IN  FracAdd(f[p], SumFractions(f, S \ {p}))

\* A normalization that leaves zero hit counts as they are.
ClampNone(hit) == hit

\* line 262: hit_predicted_label[hit_predicted_label == 0] = 1, for one entry
ClampZero(hit) == IF hit = 0 THEN 1 ELSE hit

\* The buffers are handed to the normalization of lines 262-264 as they might be
\* after any scan: a one-row scene with any hit counts and sums.
NormInit ==
    /\ crowd_pc = "normalize"
    /\ crowd_settings = [crowd_dataset |-> "ShanghaiTech", batch_size |-> 1]
    /\ sliding_window_step = 1
    /\ patch_size = 1
    /\ scene \in [height : {1}, width : 1..NormWidth]
    /\ network = [density |-> 0, count |-> 0]
    /\ train_dataset = "none"
    /\ test_dataset = "ShanghaiTech"
    /\ crowd_raised = "none"
    /\ x = 0
    /\ y = 0
    /\ half_patch_size = 0
    /\ batch = <<>>
    /\ gen_state = "returned"
    /\ first_patch_done = TRUE
    /\ example_index = 0
    /\ accumulated = 0
    /\ sum_density_label \in [Pixels(scene) -> 0..MaxSum]
    /\ sum_count_label \in [Pixels(scene) -> 0..MaxSum]
    /\ hit_predicted_label \in [Pixels(scene) -> 0..MaxHits]
    /\ full_predicted_label = <<>>
    /\ full_predicted_count = <<0, 1>>
    /\ clamped_pixels = {}

\* lines 262-264: clamp the zero hit counts, divide, and sum the count.
Normalize ==
    /\ crowd_pc = "normalize"
    /\ LET clamped == [p \in Pixels(scene) |-> ClampZero(hit_predicted_label[p])]
       IN  /\ hit_predicted_label' = clamped
           /\ clamped_pixels' = {p \in Pixels(scene) : hit_predicted_label[p] = 0}
           /\ full_predicted_label' =
                  [p \in Pixels(scene) |-> <<sum_density_label[p], clamped[p]>>]
           /\ full_predicted_count' =
                  SumFractions([p \in Pixels(scene) |-> <<sum_count_label[p], clamped[p]>>],
                               Pixels(scene))
    /\ crowd_pc' = "evaluated"
    /\ UNCHANGED <<sum_density_label, sum_count_label, genVars, crowdConfig,
                   train_dataset, test_dataset, crowd_raised, example_index, accumulated>>
    /\ UNCHANGED <<trainVars, epochVars, lossVars>>

(* -------------------------- evaluation_epoch --------------------------- *)
\* The items are 1 x 2 density maps with these pixel values; the network's
\* density output has the same shape and its count output is one of EpochCounts.
EpochShape == [height |-> 1, width |-> 2]
EpochDensities == {0, 1}
EpochCounts == {0, 1, 2}

DensityMaps == [Pixels(EpochShape) -> EpochDensities]

\* An item of the dataset with what images_to_predicted_labels (lines 209-212)
\* returns for it: network(images) gives a density map and a count.
EpochItems == [label : DensityMaps, predicted_density : DensityMaps,
               predicted_count : EpochCounts]

RECURSIVE SeqsUpTo(_, _)
SeqsUpTo(S, n) ==
    IF n = 0 THEN {<<>>}
    ELSE LET shorter == SeqsUpTo(S, n - 1)
         IN  shorter \cup {Append(q, e) : q \in {r \in shorter : Len(r) = n - 1}, e \in S}

\* evaluation_epoch is not running.
EpochIdle ==
    /\ epoch_pc = "none"
    /\ epoch_dataset = <<>>
    /\ epoch_batch_size = 1
    /\ comparison_value = "None"
    /\ cursor = 0
    /\ predicted_counts = <<>>
    /\ densities = <<>>
    /\ predicted_densities = <<>>
    /\ scalars = <<>>
    /\ epoch_result = "none"

\* evaluation_epoch has been called: lines 125-127.
EpochInit ==
    /\ epoch_pc = "loop"
    /\ epoch_dataset \in SeqsUpTo(EpochItems, MaxItems) \ {<<>>}
    /\ epoch_batch_size \in 1..MaxBatch
    /\ comparison_value \in {"None", <<1, 2>>}
    /\ cursor = 0
    /\ predicted_counts = <<>>
    /\ densities = <<>>
    /\ predicted_densities = <<>>
    /\ scalars = <<>>
    /\ epoch_result = "none"

Min(a, b) == IF a < b THEN a ELSE b

\* One turn of `for images, labels in dataset_loader`, lines 128-138: the next
\* batch_size items (fewer at the end) are predicted and concatenated.
EpochBatch ==
    /\ epoch_pc = "loop"
    /\ cursor < Len(epoch_dataset)
    /\ LET last == Min(cursor + epoch_batch_size, Len(epoch_dataset))
           items == SubSeq(epoch_dataset, cursor + 1, last)
       IN  /\ predicted_counts' =
                  predicted_counts \o [i \in 1..Len(items) |-> items[i].predicted_count]
           /\ predicted_densities' =
                  predicted_densities \o [i \in 1..Len(items) |-> items[i].predicted_density]
           /\ densities' = densities \o [i \in 1..Len(items) |-> items[i].label]
           /\ cursor' = last
    /\ UNCHANGED <<epoch_pc, epoch_dataset, epoch_batch_size, comparison_value, scalars,
                   epoch_result>>
    /\ UNCHANGED <<trainVars, crowdVars, lossVars>>

RECURSIVE SumOver(_, _)
SumOver(f, S) ==
    IF S = {} THEN 0
    ELSE LET p == CHOOSE q \in S : TRUE
         IN  f[p] + SumOver(f, S \ {p})

\* A spatial sum that takes the first column only.
SpatialSumFirstColumn(map) == SumOver(map, {p \in DOMAIN map : p[2] = 0})

\* .sum(1).sum(1) of one item
SpatialSum(map) == SumOver(map, DOMAIN map)

\* .mean() over the items, exact
Mean(values) == Reduce(<<SumOver(values, DOMAIN values), Len(values)>>)

FracDiv(f, g) == Reduce(<<f[1] * g[2], f[2] * g[1]>>)

\* lines 139-146
CountErrors ==
    [i \in DOMAIN predicted_counts |-> Abs(predicted_counts[i] - SpatialSum(densities[i]))]
DensityErrors(power) ==
    [i \in DOMAIN densities |->
        SpatialSum([p \in DOMAIN densities[i] |->
                       Abs(predicted_densities[i][p] - densities[i][p]) ^ power])]

\* lines 139-149, after the data loader is exhausted: the four scalars, the
\* ratio when a comparison value is given, and the return of the count MAE.
EpochMetrics ==
    /\ epoch_pc = "loop"
    /\ cursor = Len(epoch_dataset)
    /\ LET count_mae == Mean(CountErrors)
           density_mae == Mean(DensityErrors(1))
           count_mse == Mean([i \in DOMAIN predicted_counts |-> CountErrors[i] ^ 2])
           density_mse == Mean(DensityErrors(2))
           four == [MAE |-> count_mae, DensityMAE |-> density_mae,
                    MSE |-> count_mse, DensityMSE |-> density_mse]
       IN  /\ scalars' = IF comparison_value = "None"
                         THEN four
                         ELSE four @@ [RatioMAE |-> FracDiv(count_mae, comparison_value)]
           /\ epoch_result' = count_mae
    /\ epoch_pc' = "returned"
    /\ UNCHANGED <<epoch_dataset, epoch_batch_size, comparison_value, cursor,
                   predicted_counts, densities, predicted_densities>>
    /\ UNCHANGED <<trainVars, crowdVars, lossVars>>

EpochNext == EpochBatch \/ EpochMetrics

CrowdNext ==
    \/ DatasetSetup
    \/ EvaluateBegin
    \/ GeneratorStep
    \/ AccumulatePatch
    \/ Normalize

(* ------------------------ labeled_loss_function ------------------------ *)
\* The items are 2 x 2 density maps; a label has these pixel values, the
\* predicted density is one of these values at every pixel, and the predicted
\* count is one of LossCounts.
LossShape == [height |-> 2, width |-> 2]
LossLabelValues == {0, 1}
LossPredictedValues == {0, 2}
LossCounts == {0, 2}

LossItems ==
    [density_label : [Pixels(LossShape) -> LossLabelValues],
     predicted_density : {[p \in Pixels(LossShape) |-> v] : v \in LossPredictedValues},
     predicted_count : LossCounts]

\* labeled_loss_function is not running.
LossIdle ==
    /\ loss_pc = "none"
    /\ loss_batch = <<>>
    /\ density_loss = "none"
    /\ count_loss = "none"
    /\ loss_result = "none"

\* labeled_loss_function has been called: lines 201-204.
LossInit ==
    /\ loss_pc = "called"
    /\ loss_batch \in SeqsUpTo(LossItems, MaxLossBatch) \ {<<>>}
    /\ density_loss = "none"
    /\ count_loss = "none"
    /\ loss_result = "none"

\* A density loss whose absolute differences are not squared.
DensityLossNoSquare(items) ==
    Mean([i \in DOMAIN items |->
             SpatialSum([p \in DOMAIN items[i].density_label |->
                            Abs(items[i].predicted_density[p]
                                - items[i].density_label[p])])])

\* line 205: torch.abs(predicted - label).pow(2).sum(1).sum(1).mean()
DensityLoss(items) ==
    Mean([i \in DOMAIN items |->
             SpatialSum([p \in DOMAIN items[i].density_label |->
                            Abs(items[i].predicted_density[p]
                                - items[i].density_label[p]) ^ 2])])

\* line 206: torch.abs(predicted_count - label.sum(1).sum(1)).pow(2).mean()
CountLoss(items) ==
    Mean([i \in DOMAIN items |->
             Abs(items[i].predicted_count - SpatialSum(items[i].density_label)) ^ 2])

\* A total with the factor 10 on the count loss.
TotalLossWeightOnCount(count, density) == FracAdd(<<count[1] * 10, count[2]>>, density)

\* line 207: count_loss + (density_loss * 10)
TotalLoss(count, density) == FracAdd(count, <<density[1] * 10, density[2]>>)

\* labeled_loss_function, lines 203-207.
LabeledLossFunction ==
    /\ loss_pc = "called"
    /\ density_loss' = DensityLoss(loss_batch)
    /\ count_loss' = CountLoss(loss_batch)
    /\ loss_result' = TotalLoss(CountLoss(loss_batch), DensityLoss(loss_batch))
    /\ loss_pc' = "returned"
    /\ UNCHANGED loss_batch
    /\ UNCHANGED <<trainVars, crowdVars, epochVars>>

(* --------------------------- specifications ---------------------------- *)
\* A run of run_srgan, or a CrowdExperiment on which dataset_setup or evaluate
\* is called, or the normalization of evaluate on given buffers.
Init ==
    \/ TrainInit /\ CrowdIdle /\ EpochIdle /\ LossIdle
    \/ TrainIdle /\ CrowdInit /\ EpochIdle /\ LossIdle
    \/ TrainIdle /\ NormInit /\ EpochIdle /\ LossIdle

Next == TrainNext \/ CrowdNext

Spec == Init /\ [][Next]_vars

\* The generator alone, iterated by a caller that takes every batch.
InitScan == TrainIdle /\ ScanInit /\ EpochIdle /\ LossIdle

NextScan == GeneratorStep \/ TakeBatch

SpecScan == InitScan /\ [][NextScan]_vars

\* The caller goes on iterating and the generator goes on running.
FairScan == SpecScan /\ WF_vars(NextScan)

\* evaluation_epoch on a dataset and a network.
InitEpoch == TrainIdle /\ CrowdIdle /\ EpochInit /\ LossIdle

SpecEpoch == InitEpoch /\ [][EpochNext]_vars

\* evaluate's accumulation of one patch at any window centre.
InitPatch == TrainIdle /\ PatchInit /\ EpochIdle /\ LossIdle

SpecPatch == InitPatch /\ [][AccumulatePatch]_vars

\* labeled_loss_function on a batch.
InitLoss == TrainIdle /\ CrowdIdle /\ EpochIdle /\ LossInit

SpecLoss == InitLoss /\ [][LabeledLossFunction]_vars

(* ------------------------------- claims -------------------------------- *)
\* C1: the steps of run_srgan run in increasing order, each one supervised step
\* followed by one GAN step, never interleaved: when the supervised step of
\* `step` is about to run exactly `step` supervised and `step` GAN steps have
\* completed, when its GAN step is about to run step + 1 supervised and `step`
\* GAN steps have, after it both counts are step + 1, and the run ends after
\* exactly steps_to_run of each.
C1_StepsInOrder ==
    /\ pc = "dnn" => dnn_updates = step /\ gan_updates = step
    /\ pc = "gan" => dnn_updates = step + 1 /\ gan_updates = step
    /\ pc \in {"summary", "poll", "loop"} =>
           dnn_updates = step + 1 /\ gan_updates = step + 1
    /\ pc \in {"dnn", "gan", "summary", "poll"} =>
           0 <= step /\ step < settings.steps_to_run
    /\ pc \in {"completed", "done"} =>
           dnn_updates = settings.steps_to_run /\ gan_updates = settings.steps_to_run

C1_Witness ==
    /\ pc = "done"
    /\ settings.steps_to_run >= 2
    /\ dnn_updates = settings.steps_to_run
    /\ gan_updates = settings.steps_to_run

\* C2: every file set written for a 'save' request at step s holds the DNN, D and
\* G states as they are after both training steps of s and before any update of
\* s + 1: all three networks are saved, each at parameter version s + 1.
C2_SaveAtStepBoundary ==
    \A f \in files :
        f.tag >= 0 =>
            /\ f.state = f.tag + 1
            /\ \A n \in Networks :
                   [net |-> n, tag |-> f.tag, state |-> f.tag + 1] \in files

C2_Witness ==
    \E f \in files : f.tag >= 1 /\ f.net = "G" /\ f.state = f.tag + 1

\* C3: the scan of batches_of_patches_with_position eventually ends.
C3_ScanEnds == <>(gen_state = "returned")

\* C4: every window centre after the first is the previous one advanced by
\* sliding_window_step along x, or, when that passes the scene width, back at
\* x = 0 and advanced by the step along y.
C4_AdvanceAfterFirst ==
    [][(first_patch_done /\ Len(batch') = Len(batch) + 1) =>
           <<x', y'>> = IF x + sliding_window_step < scene.width
                        THEN <<x + sliding_window_step, y>>
                        ELSE <<0, y + sliding_window_step>>]_vars

Divides(d, n) == n % d = 0

\* The window centres of a scan of the scene with stride sliding_window_step.
WindowCount ==
    ((scene.height + sliding_window_step - 1) \div sliding_window_step)
    * ((scene.width + sliding_window_step - 1) \div sliding_window_step)

\* C5: for a scene whose height and width are multiples of the stride and of the
\* patch size, once evaluate has accumulated as many patches as the scan of the
\* scene has window centres, the hit count is >= 1 at every pixel. The stride is
\* taken no larger than half the patch plus one, so that windows centred one
\* stride apart from 0 on leave no gap and reach the far edges.
C5_NoPixelUncovered ==
    (/\ crowd_pc = "for_batch"
     /\ sliding_window_step <= HalfPatchSize + 1
     /\ Divides(sliding_window_step, scene.height)
     /\ Divides(sliding_window_step, scene.width)
     /\ Divides(patch_size, scene.height)
     /\ Divides(patch_size, scene.width)
     /\ accumulated >= WindowCount)
    => \A p \in Pixels(scene) : hit_predicted_label[p] >= 1

\* C6: with a stride equal to the patch size no two patches overlap: while
\* evaluate accumulates, no pixel has a hit count above 1 and a covered pixel
\* holds the predicted value of the one patch covering it.
C6_NoOverlapNoBlending ==
    (crowd_pc = "for_batch" /\ sliding_window_step = patch_size)
    => \A p \in Pixels(scene) :
           /\ hit_predicted_label[p] <= 1
           /\ hit_predicted_label[p] = 1 =>
                  \E r, c \in 0..(patch_size - 1) :
                      sum_density_label[p] = PredictedLabel(r, c)

Max(a, b) == IF a > b THEN a ELSE b

\* C7: the normalization divides by max(hit count, 1): no denominator is zero,
\* the final density is accumulated density / max(hit count, 1) at each pixel,
\* the final count is the sum over the pixels of accumulated count
\* contribution / max(hit count, 1), and hit counts >= 1 are left as they are.
C7_ClampedDivision ==
    [][(crowd_pc = "normalize" /\ crowd_pc' = "evaluated") =>
           /\ \A p \in Pixels(scene) :
                  /\ full_predicted_label'[p][2] # 0
                  /\ full_predicted_label'[p] =
                         <<sum_density_label[p], Max(hit_predicted_label[p], 1)>>
                  /\ hit_predicted_label[p] >= 1 =>
                         hit_predicted_label'[p] = hit_predicted_label[p]
           /\ full_predicted_count' =
                  SumFractions([p \in Pixels(scene) |->
                                   <<sum_count_label[p], Max(hit_predicted_label[p], 1)>>],
                               Pixels(scene))]_vars

C7_Witness ==
    /\ crowd_pc = "evaluated"
    /\ scene.width = 2
    /\ clamped_pixels = {<<0, 0>>}
    /\ full_predicted_label[<<0, 0>>] = <<2, 1>>
    /\ full_predicted_label[<<0, 1>>] = <<1, 2>>
    /\ full_predicted_count = <<3, 2>>

\* C8: an unrecognized application (run_srgan) or crowd dataset (dataset_setup,
\* evaluate) ends in the error that names it and in nothing else: no setup
\* result, no optimizer, no training step, no dataset and no scan.
C8_ConfigErrorsFailFast ==
    /\ (pc # "none" /\ settings.application \notin KnownApplications) =>
           /\ pc \in {"start", "error"}
           /\ pc = "error" => raised = settings.application
           /\ ~setup_done /\ ~optimizers_built /\ loaded = {}
           /\ dnn_updates = 0 /\ gan_updates = 0 /\ step = -1 /\ files = {}
    /\ pc = "error" => settings.application \notin KnownApplications
    /\ train_dataset # "none" => crowd_settings.crowd_dataset \in SetupDatasets
    /\ test_dataset # "none" => crowd_settings.crowd_dataset \in EvaluateDatasets
    /\ (crowd_pc = "error" /\ crowd_raised \in CrowdDatasets) =>
           /\ crowd_raised = crowd_settings.crowd_dataset
           /\ train_dataset = "none" /\ test_dataset = "none"
           /\ gen_state = "none" /\ accumulated = 0
    /\ (crowd_pc \notin {"none", "idle"}
            /\ crowd_settings.crowd_dataset \notin SetupDatasets) =>
           crowd_pc = "error" /\ crowd_raised = crowd_settings.crowd_dataset

C8_Witness == pc = "error" /\ raised = "crowd" /\ ~setup_done /\ dnn_updates = 0

\* C9: network state is loaded only before the first training step and only
\* when load_model_path is set; model files are written only for a 'save' line
\* read from stdin or, with should_save_models, after the last training step.
C9_LoadAndSaveOnlyThen ==
    [][/\ loaded' # loaded =>
              /\ pc = "load" /\ settings.load_model_path
              /\ step = -1 /\ dnn_updates = 0 /\ gan_updates = 0
       /\ files' # files =>
              \/ pc = "poll" /\ stdin # <<>> /\ ContainsSave(Head(stdin))
              \/ /\ pc = "completed" /\ settings.should_save_models
                 /\ dnn_updates = settings.steps_to_run
                 /\ gan_updates = settings.steps_to_run]_vars

C9_Witness ==
    /\ pc = "done"
    /\ loaded = Networks
    /\ \E f \in files : f.tag = -1 /\ f.state >= 2
    /\ \E f \in files : f.tag >= 0

IsZero(f) == f[1] = 0 /\ f[2] # 0

PerfectDensity ==
    \A i \in DOMAIN epoch_dataset :
        epoch_dataset[i].predicted_density = epoch_dataset[i].label

PerfectCount ==
    \A i \in DOMAIN epoch_dataset :
        epoch_dataset[i].predicted_count = SumOver(epoch_dataset[i].label,
                                                   Pixels(EpochShape))

\* C10 as stated: a network whose predicted density equals the ground truth at
\* every pixel of every item makes evaluation_epoch report count MAE, density
\* MAE, count MSE and density MSE 0 and return 0.
C10_PerfectDensityAllZero ==
    (epoch_pc = "returned" /\ PerfectDensity) =>
        /\ IsZero(scalars.MAE) /\ IsZero(scalars.DensityMAE)
        /\ IsZero(scalars.MSE) /\ IsZero(scalars.DensityMSE)
        /\ IsZero(epoch_result)

\* C10 as amended: a network whose predicted density equals the ground truth at
\* every pixel of every item gets density MAE 0 and density MSE 0; when its
\* predicted count also equals the spatial sum of the ground truth for every
\* item it gets count MAE 0 and count MSE 0 and 0 is returned.
C10_PerfectNetworkAllZero ==
    /\ (epoch_pc = "returned" /\ PerfectDensity) =>
           IsZero(scalars.DensityMAE) /\ IsZero(scalars.DensityMSE)
    /\ (epoch_pc = "returned" /\ PerfectDensity /\ PerfectCount) =>
           IsZero(scalars.MAE) /\ IsZero(scalars.MSE) /\ IsZero(epoch_result)

C10_Witness ==
    /\ epoch_pc = "returned"
    /\ PerfectDensity
    /\ PerfectCount
    /\ Len(epoch_dataset) = 2
    /\ epoch_dataset[1].label = [p \in Pixels(EpochShape) |-> 1]
    /\ IsZero(scalars.MAE)
    /\ IsZero(scalars.DensityMSE)

\* The squared error of item i of the batch, of its count and summed over its
\* density map.
SquaredCountError(i) ==
    LET true_count == SumOver(loss_batch[i].density_label, Pixels(LossShape))
        d == loss_batch[i].predicted_count - true_count
    IN  d * d

SquaredDensityError(i) ==
    SumOver([p \in Pixels(LossShape) |->
                LET d == loss_batch[i].predicted_density[p] - loss_batch[i].density_label[p]
                IN  d * d],
            Pixels(LossShape))

BatchSum(f(_)) == SumOver([i \in DOMAIN loss_batch |-> f(i)], DOMAIN loss_batch)

\* a / b = c / d, for fractions with non-zero denominators
SameFraction(f, g) == f[2] # 0 /\ g[2] # 0 /\ f[1] * g[2] = g[1] * f[2]

\* The batch of one item of the spec's example: predicted density all zero,
\* density label all one, predicted count 0.
ExampleBatch ==
    <<[density_label |-> [p \in Pixels(LossShape) |-> 1],
       predicted_density |-> [p \in Pixels(LossShape) |-> 0],
       predicted_count |-> 0]>>

\* C11: labeled_loss_function returns count_loss + 10 * density_loss, with
\* density_loss the mean over the batch of the per-item spatial sum of squared
\* density differences and count_loss the mean over the batch of the squared
\* difference between predicted count and label sum; on the example batch
\* density_loss is 4, count_loss 16 and the total 56.
C11_LossComposition ==
    loss_pc = "returned" =>
        /\ SameFraction(density_loss, <<BatchSum(SquaredDensityError), Len(loss_batch)>>)
        /\ SameFraction(count_loss, <<BatchSum(SquaredCountError), Len(loss_batch)>>)
        /\ SameFraction(loss_result,
                        <<count_loss[1] * density_loss[2]
                              + 10 * density_loss[1] * count_loss[2],
                          count_loss[2] * density_loss[2]>>)
        /\ loss_batch = ExampleBatch =>
               /\ density_loss = <<4, 1>>
               /\ count_loss = <<16, 1>>
               /\ loss_result = <<56, 1>>

C11_Witness ==
    /\ loss_pc = "returned"
    /\ loss_batch = ExampleBatch
    /\ loss_result = <<56, 1>>

PixelCount == Cardinality(Pixels(LossShape))

\* C12 as stated: the loss is the mean over the batch of (predicted count - true
\* count)^2 + 10 * the mean over the item's pixels of (predicted - true
\* density)^2.
C12_MeanPerPixel ==
    loss_pc = "returned" =>
        SameFraction(loss_result,
                     <<BatchSum(LAMBDA i : PixelCount * SquaredCountError(i)
                                           + 10 * SquaredDensityError(i)),
                       PixelCount * Len(loss_batch)>>)

\* C12 as amended: the loss is the mean over the batch of (predicted count - true
\* count)^2 + 10 * the sum over the item's pixels of (predicted - true density)^2.
C12_SumPerItem ==
    loss_pc = "returned" =>
        SameFraction(loss_result,
                     <<BatchSum(LAMBDA i : SquaredCountError(i)
                                           + 10 * SquaredDensityError(i)),
                       Len(loss_batch)>>)

C12_Witness ==
    /\ loss_pc = "returned"
    /\ Len(loss_batch) = 2
    /\ SquaredDensityError(1) = 16
    /\ SquaredDensityError(2) = 1
    /\ SquaredCountError(1) = 4
    /\ SquaredCountError(2) = 1
    /\ loss_result = <<175, 2>>

\* The window centre of the patch evaluate is about to accumulate.
CentreX == batch[example_index + 1][1]
CentreY == batch[example_index + 1][2]

\* What the claim says of one accumulated patch: nothing is raised, the written
\* region is inside the scene and as large as the slice of the prediction, the
\* hit counter rises by 1 in the region and nowhere else, and the two
\* accumulators change in that region only.
PatchWrittenAsClaimed ==
    /\ crowd_pc' # "error"
    /\ 0 <= DestLo(CentreY) /\ DestHi(CentreY, scene.height) <= scene.height
    /\ 0 <= DestLo(CentreX) /\ DestHi(CentreX, scene.width) <= scene.width
    /\ DestLen(CentreY, scene.height) = SrcLen(CentreY, scene.height)
    /\ DestLen(CentreX, scene.width) = SrcLen(CentreX, scene.width)
    /\ \A p \in Pixels(scene) :
           IF InRegion(p, CentreX, CentreY)
           THEN hit_predicted_label'[p] = hit_predicted_label[p] + 1
           ELSE /\ hit_predicted_label'[p] = hit_predicted_label[p]
                /\ sum_density_label'[p] = sum_density_label[p]
                /\ sum_count_label'[p] = sum_count_label[p]

\* C13: for every patch_size and every window centre inside the scene, the region
\* evaluate writes lies inside the scene, is the same for the density
\* accumulator, the count accumulator and the hit counter (which rises by exactly
\* 1 there and is unchanged elsewhere), and has the shape of the clipped
\* sub-region of the patch_size x patch_size prediction.
C13_RegionMatchesPrediction == [][AccumulatePatch => PatchWrittenAsClaimed]_vars

\* The same for an odd patch_size only.
OddPatchRegionMatchesPrediction ==
    [][AccumulatePatch /\ patch_size % 2 = 1 => PatchWrittenAsClaimed]_vars

\* C14: in every training step exactly one labeled and one unlabeled batch are
\* drawn, and the labeled batch passed to the GAN training step is the batch
\* that was passed to the DNN training step of the same step.
C14_OneBatchEachSameLabeledBatch ==
    /\ pc = "dnn" => train_drawn = step /\ unlabeled_drawn = step
    /\ pc = "gan" =>
           /\ train_drawn = step + 1 /\ unlabeled_drawn = step
           /\ dnn_input = <<step, labeled_examples>>
    /\ pc \in {"summary", "poll", "loop"} /\ step >= 0 =>
           /\ train_drawn = step + 1 /\ unlabeled_drawn = step + 1
           /\ dnn_input = <<step, step + 1>>
           /\ gan_input = <<step, dnn_input[2], step + 1>>
    /\ pc \in {"completed", "done"} =>
           /\ train_drawn = settings.steps_to_run
           /\ unlabeled_drawn = settings.steps_to_run
           /\ IF settings.steps_to_run = 0
              THEN dnn_input = <<>> /\ gan_input = <<>>
              ELSE /\ dnn_input = <<step, step + 1>>
                   /\ gan_input = <<step, dnn_input[2], step + 1>>

C14_Witness ==
    /\ pc = "done"
    /\ step >= 1
    /\ train_drawn = step + 1
    /\ unlabeled_drawn = step + 1
    /\ dnn_input = <<step, step + 1>>
    /\ gan_input = <<step, step + 1, step + 1>>

====
